---- MODULE Spec2Model ----
(***************************************************************************)
(* Model of BGTrackPackages: gmailtracking.py (run controller, ledgers,    *)
(* extractors) and gmailtrackingmodel.py (Email, Purchase,                 *)
(* DeliveryService).                                                       *)
(*                                                                         *)
(* Strings whose characters matter are sequences of one-character strings. *)
(* A Python object is a record tagged with its class in field "class".     *)
(* A ledger file is the sequence of chunks written to it: a chunk is       *)
(* either one whole encoded record followed by a newline, or the torn      *)
(* beginning of a record left by a process killed inside file.write.       *)
(***************************************************************************)
EXTENDS Integers, Sequences, FiniteSets, TLC

\* ------------------------------------------------------------------ bounds
MaxMsgs == 2       \* messages in the mailbox of the runs: ids 1..MaxMsgs
MaxFetchMsgs == 5  \* messages in the mailbox when only the listing is explored
MaxCount == 2      \* load_count (sys.argv[1]) ranges over 1..MaxCount
MaxLedger == 2     \* with a torn line on disk, runs start while the files hold this much
MaxDigits == 21    \* longest run of digits in a tracking number tried
MaxAnchors == 3    \* most <a> tags on a tracking page tried
MaxPieces == 4     \* most pieces in a first address line tried

\* ------------------------------------------------------------- characters
Digits == {"0", "1", "2", "3", "4", "5", "6", "7", "8", "9"}
UpperLetters == {"A", "B", "C", "D", "E", "F", "G", "H", "I", "J", "K", "L", "M",
                 "N", "O", "P", "Q", "R", "S", "T", "U", "V", "W", "X", "Y", "Z"}
LowerLetters == {"a", "b", "c", "d", "e", "f", "g", "h", "i", "j", "k", "l", "m",
                 "n", "o", "p", "q", "r", "s", "t", "u", "v", "w", "x", "y", "z"}

\* s[from..] of Python: the characters after the first n
Drop(s, n) == IF n >= Len(s) THEN <<>> ELSE SubSeq(s, n + 1, Len(s))

\* re.match(p, s) for a literal p: s begins with p
StartsWith(s, p) == Len(s) >= Len(p) /\ SubSeq(s, 1, Len(p)) = p

\* "p in s" of Python for strings: p occurs somewhere in s
Contains(s, p) == \E k \in 0..(Len(s) - Len(p)) : SubSeq(s, k + 1, k + Len(p)) = p

\* re.match("[0-9]{n}", s): only the beginning of s is matched
MatchDigits(s, n) == Len(s) >= n /\ \A k \in 1..n : s[k] \in Digits

\* re.fullmatch("[0-9]{n}", s)
FullMatchDigits(s, n) == Len(s) = n /\ \A k \in 1..Len(s) : s[k] \in Digits

\* re.fullmatch("[A-Z]{2}[0-9]{9}[A-Z]{2}", s)
FullMatchLetterDigitLetter(s) ==
    /\ Len(s) = 13
    /\ \A k \in {1, 2, 12, 13} : s[k] \in UpperLetters
    /\ \A k \in 3..11 : s[k] \in Digits

\* --------------------------------------------------- gmailtrackingmodel.py
\* DeliveryService.from_number; "None" is Python's None
from_number(trk_number) ==
    IF StartsWith(trk_number, <<"T", "B", "A">>) THEN "Amazon"
    ELSE IF StartsWith(trk_number, <<"1", "Z">>) THEN "UPS"
    ELSE IF FullMatchDigits(trk_number, 20) THEN "USPS"
    ELSE IF FullMatchLetterDigitLetter(trk_number) THEN "USPS"
    ELSE IF FullMatchDigits(trk_number, 12) THEN "FedEx"
    ELSE IF FullMatchDigits(trk_number, 15) THEN "FedEx"
    ELSE "None"

\* Email(Id, ...): to, sender, date, subject are compare=False
Email(message_id) == [class |-> "Email", Id |-> message_id]

\* Purchase(email, tracking_number, address) with __post_init__
Purchase(email, tracking_number) ==
    [class |-> "Purchase", email |-> email, tracking_number |-> tracking_number,
     shipping_service |-> from_number(tracking_number)]

\* an entry of the list messages.list returns: {'id': ..., 'threadId': ...}
MessageDict(id) == [class |-> "dict", id |-> id]

\* a == b of Python: the dataclass __eq__ answers only for its own class and
\* compares the compare=True fields; any other pair falls back to identity
PyEq(a, b) ==
    IF a.class # b.class THEN FALSE
    ELSE IF a.class = "Email" THEN a.Id = b.Id
    ELSE IF a.class = "Purchase"
        THEN a.email.Id = b.email.Id /\ a.tracking_number = b.tracking_number
    ELSE a = b

\* x in list
PyIn(x, list) == \E k \in 1..Len(list) : PyEq(x, list[k])

\* ---------------------------------------------------------- ledger files
\* jsonpickle.encode(item) + "\n": one whole line holding the record
Line(item) == [kind |-> "line", obj |-> item]

\* what a process killed inside file.write leaves: the beginning of a record
Torn == [kind |-> "torn"]

\* save(itemlist, path): open(path, "w+") truncates, then one line per item
save(itemlist, file) == [k \in 1..Len(itemlist) |-> Line(itemlist[k])]

\* append written with save: the file is opened with "w+"
append_rewriting(item, file) == save(<<item>>, file)

\* append(item, path): open(path, "a+") writes one line at the end
append(item, file) == Append(file, Line(item))

\* every line of the file decodes (a torn chunk makes the line it lies on
\* undecodable: jsonpickle.decode raises there)
Decodable(file) == \A k \in 1..Len(file) : file[k].kind = "line"

\* load(path): the comprehension is inside one try: any line that raises,
\* or a missing file, gives []
load(file) == IF Decodable(file) THEN [k \in 1..Len(file) |-> file[k].obj] ELSE <<>>

\* ------------------------------------------------------- fetched messages
TrackingIdLabel == <<"T", "r", "a", "c", "k", "i", "n", "g", " ", "I", "D">>

\* the From header, lower-cased, as the set of sender domains it contains
Domains == {"ups.com", "fedex.com", "amazon.com"}
NoFrom == [present |-> FALSE, has |-> {}]
Headers == {NoFrom} \cup {[present |-> TRUE, has |-> h] :
               h \in {{}, {"ups.com"}, {"fedex.com"}, {"amazon.com"},
                      {"ups.com", "amazon.com"}, {"fedex.com", "amazon.com"}}}

\* the "Tracking Number:=C2=A0..." line of a UPS plaintext body
TrackingLines == {[found |-> FALSE, text |-> <<>>],
                  [found |-> TRUE, text |-> <<"1", "Z", "7">>]}

\* the <a> texts of the page behind an Amazon tracking URL
MainPages == {<<>>, <<TrackingIdLabel \o <<":", " ", "T", "B", "A", "7">>>>}

\* a fetched MIME message, as far as the extractors read it
DefaultBody == [From |-> NoFrom, address_ok |-> FALSE,
                tracking_line |-> [found |-> FALSE, text |-> <<>>],
                url |-> "none", page |-> <<>>]
Bodies ==
    {[DefaultBody EXCEPT !.From = h] : h \in Headers}
    \cup {[DefaultBody EXCEPT !.From = h, !.address_ok = a, !.tracking_line = t] :
            h \in {x \in Headers : "ups.com" \in x.has}, a \in BOOLEAN, t \in TrackingLines}
    \cup {[DefaultBody EXCEPT !.From = h, !.address_ok = a, !.url = u, !.page = p] :
            h \in {x \in Headers : "amazon.com" \in x.has}, a \in BOOLEAN,
            u \in {"none", "unreachable", "ok"}, p \in MainPages}

\* the result of a call: a value, or an exception
Returns(v) == [raised |-> FALSE, value |-> v]
Raises == [raised |-> TRUE, value |-> "None"]

\* ------------------------------------------------------------- extractors
\* the anchors whose text passes the test of the generator expression
IsTrackingAnchor(text) == Contains(text, TrackingIdLabel)

\* find_amazon_tracking_ID_in_tracking_url_html: next(...) raises
\* StopIteration when no anchor passes
find_amazon_tracking_ID_in_tracking_url_html(atags) ==
    LET hits == {k \in 1..Len(atags) : IsTrackingAnchor(atags[k])}
    IN IF hits = {} THEN Raises
       ELSE LET first == CHOOSE k \in hits : \A j \in hits : k <= j
            IN Returns(Drop(atags[first], 13))

\* DeliveryServiceParser.parse_ds
parse_ds(message) ==
    IF ~message.From.present THEN Raises
    ELSE IF "ups.com" \in message.From.has THEN Returns("UPS")
    ELSE IF "fedex.com" \in message.From.has THEN Returns("FedEx")
    ELSE IF "amazon.com" \in message.From.has THEN Returns("Amazon")
    ELSE Returns("None")

\* DeliveryServiceParser.parse_address: the address, or None for the default
DeliveryServiceParser_parse_address(ds, message) ==
    IF ds \in {"UPS", "Amazon"}
        THEN IF message.address_ok THEN Returns("Address") ELSE Raises
        ELSE Returns("None")

\* DeliveryServiceParser.parse_tracking_id; has |-> FALSE is a returned None
DeliveryServiceParser_parse_tracking_id(ds, message) ==
    IF ds = "Amazon"
        THEN IF message.url # "ok" THEN Raises
             ELSE LET r == find_amazon_tracking_ID_in_tracking_url_html(message.page)
                  IN IF r.raised THEN Raises
                     ELSE Returns([has |-> TRUE, text |-> r.value])
    ELSE IF ds = "UPS"
        THEN IF message.tracking_line.found
                 THEN Returns([has |-> TRUE, text |-> message.tracking_line.text])
                 ELSE Raises
    ELSE Returns([has |-> FALSE, text |-> <<>>])

\* the try block of main up to the Purchase: Purchase.__post_init__ raises
\* on a tracking number of None (re.match on None)
Extract(email, message) ==
    LET ds == parse_ds(message)
    IN IF ds.raised THEN Raises
       ELSE LET address == DeliveryServiceParser_parse_address(ds.value, message)
            IN IF address.raised THEN Raises
               ELSE LET tracking_id ==
                            DeliveryServiceParser_parse_tracking_id(ds.value, message)
                    IN IF tracking_id.raised THEN Raises
                       ELSE IF ~tracking_id.value.has THEN Raises
                       ELSE Returns(Purchase(email, tracking_id.value.text))

\* ------------------------------------------------------------------ state
VARIABLES
    call,                    \* a function called on its own: argument and result
    mailbox,                 \* the ids of the messages the mailbox holds
    pc,                      \* where main() is
    dataFile,                \* tracking.data, the success ledger on disk
    errFile,                 \* tracking.errors, the error ledger on disk
    data,                    \* main: data = load_data()
    processed_ids,           \* main: [x.email.Id for x in data]
    errors,                  \* main: errors = load_errors()
    newtrackingids,          \* main: tracking numbers to print at the end
    load_count,              \* main: get_message_count()
    messages,                \* get_messages: response.get("messages"), extended
    pending,                 \* the mailbox: ids behind response['nextPageToken']
    filtered_errors_handled, \* main: the messages the loop goes over
    idx,                     \* main: position of the for loop, from 1
    printed,                 \* what main printed at the end, once it did
    last,                    \* history: what the loop did with the latest message
    loaded                   \* history: the length of each file when it was loaded

vars == <<call, mailbox, pc, dataFile, errFile, data, processed_ids, errors, newtrackingids,
          load_count, messages, pending, filtered_errors_handled, idx, printed,
          last, loaded>>

world == <<call, mailbox>>
files == <<world, dataFile, errFile>>
memory == <<data, processed_ids, errors, newtrackingids, load_count, messages,
            pending, filtered_errors_handled, idx, printed, last, loaded>>

\* Python's None for the list of messages, and a list
NoMessages == [isNone |-> TRUE, list |-> <<>>]
Messages(list) == [isNone |-> FALSE, list |-> list]

\* nothing handled yet
NoOutcome == [id |-> 0, kind |-> "none", ds |-> "none"]

\* the memory of a process that has not started
Fresh ==
    /\ data = <<>> /\ processed_ids = <<>> /\ errors = <<>>
    /\ newtrackingids = <<>> /\ load_count = 1
    /\ messages = NoMessages /\ pending = <<>>
    /\ filtered_errors_handled = <<>> /\ idx = 1
    /\ printed = <<>> /\ last = NoOutcome /\ loaded = [data |-> 0, err |-> 0]

\* the process is gone, and its memory with it
Forget ==
    /\ data' = <<>> /\ processed_ids' = <<>> /\ errors' = <<>>
    /\ newtrackingids' = <<>> /\ load_count' = 1
    /\ messages' = NoMessages /\ pending' = <<>>
    /\ filtered_errors_handled' = <<>> /\ idx' = 1
    /\ printed' = <<>> /\ last' = NoOutcome /\ loaded' = [data |-> 0, err |-> 0]

\* no function is being called on its own
NoCall == [fn |-> "none", arg |-> <<>>, returned |-> FALSE, result |-> <<>>]

Init ==
    /\ call = NoCall
    /\ mailbox = 1..MaxMsgs
    /\ pc = "Start"
    /\ dataFile = <<>> /\ errFile = <<>>
    /\ Fresh

\* the ids of a set, in the order the mailbox lists them
RECURSIVE Listing(_)
Listing(S) ==
    IF S = {} THEN <<>>
    ELSE LET m == CHOOSE x \in S : \A y \in S : x <= y
         IN <<MessageDict(m)>> \o Listing(S \ {m})

Min(a, b) == IF a <= b THEN a ELSE b

\* ------------------------------------------------------------------- main
\* main, lines 478-486: both ledgers are loaded, the count is read
LoadLedgers ==
    /\ pc = "Start"
    /\ (Decodable(dataFile) /\ Decodable(errFile))
          \/ Len(dataFile) + Len(errFile) <= MaxLedger
    /\ data' = load(dataFile)
    /\ processed_ids' = [k \in 1..Len(load(dataFile)) |-> load(dataFile)[k].email.Id]
    /\ errors' = load(errFile)
    /\ newtrackingids' = <<>>
    /\ \E n \in 1..MaxCount : load_count' = n
    /\ loaded' = [data |-> Len(dataFile), err |-> Len(errFile)]
    /\ pc' = "Fetching"
    /\ UNCHANGED <<files, messages, pending, filtered_errors_handled, idx, printed,
                   last>>

\* get_messages, lines 186-188: the first page, asked for with maxResults;
\* a mailbox with nothing under the label answers without a "messages" key
ListFirstPage ==
    /\ pc = "Fetching"
    /\ \E S \in SUBSET mailbox :
          IF S = {}
              THEN messages' = NoMessages /\ pending' = <<>>
              ELSE \E k \in 1..Min(load_count, Cardinality(S)) :
                      /\ messages' = Messages(SubSeq(Listing(S), 1, k))
                      /\ pending' = Drop(Listing(S), k)
    /\ pc' = "Paging"
    /\ UNCHANGED <<files, data, processed_ids, errors, newtrackingids, load_count,
                   filtered_errors_handled, idx, printed, last, loaded>>

\* the test of the while loop of get_messages, line 190
MorePages(msgs, rest, max_results) == rest # <<>> /\ Len(msgs.list) < max_results

\* get_messages, lines 191-194: a further page, asked for without maxResults,
\* is added whole
ListNextPage ==
    /\ pc = "Paging"
    /\ MorePages(messages, pending, load_count)
    /\ \E k \in 1..Len(pending) :
          /\ messages' = Messages(messages.list \o SubSeq(pending, 1, k))
          /\ pending' = Drop(pending, k)
    /\ UNCHANGED <<pc, files, data, processed_ids, errors, newtrackingids, load_count,
                   filtered_errors_handled, idx, printed, last, loaded>>

\* get_messages, line 196: the loop is over, the list is returned
ReturnMessages ==
    /\ pc = "Paging"
    /\ ~MorePages(messages, pending, load_count)
    /\ pc' = "Filtering"
    /\ UNCHANGED <<files, memory>>

\* a request to the mailbox raises: main ends with the exception
FetchFails ==
    /\ pc \in {"Fetching", "Paging"}
    /\ pc' = "FetchFailed"
    /\ UNCHANGED <<files, memory>>

\* main, line 497
new_messages(msgs, ids) ==
    LET NotProcessed(x) == \A k \in 1..Len(ids) : ids[k] # x.id
    IN SelectSeq(msgs, NotProcessed)

\* main, line 498: x is a dict, errors holds Email objects
filter_errors(msgs, errs) ==
    LET NotInErrors(x) == ~PyIn(x, errs)
    IN SelectSeq(msgs, NotInErrors)

\* main, lines 497-498: iterating None raises TypeError, which ends main
Filter ==
    /\ pc = "Filtering"
    /\ IF messages.isNone
          THEN pc' = "Raised" /\ UNCHANGED filtered_errors_handled
          ELSE /\ filtered_errors_handled' =
                      filter_errors(new_messages(messages.list, processed_ids), errors)
               /\ pc' = "Extracting"
    /\ idx' = 1
    /\ UNCHANGED <<files, data, processed_ids, errors, newtrackingids, load_count,
                   messages, pending, printed, last, loaded>>

\* lines 535-538 without the test of line 537
on_extract_failure_unchecked(email, errs, file) == append(email, file)

\* lines 535-538 with the failure swallowed
on_extract_failure_dropped(email, errs, file) == file

\* main, lines 535-538
on_extract_failure(email, errs, file) ==
    IF ~PyIn(email, errs) THEN append(email, file) ELSE file

\* lines 507-510 handled like a failure of the extraction
on_transport_failure_recorded(email, errs, file) ==
    IF ~PyIn(email, errs) THEN append(email, file) ELSE file

\* main, lines 507-510: the fetch raised; the message is printed and skipped
on_transport_failure(email, errs, file) == file

\* main, lines 527-531
store_purchase(purchase, known, file) ==
    IF ~PyIn(purchase, known) THEN append(purchase, file) ELSE file

\* main, line 533, under the test of line 527
note_tracking_id(purchase, known, ids) ==
    IF ~PyIn(purchase, known) THEN Append(ids, purchase.tracking_number) ELSE ids

\* what parse_ds made of the sender, for the history
Sender(message) == IF parse_ds(message).raised THEN "raised" ELSE parse_ds(message).value

\* main, lines 501-538: one pass of the loop body
ProcessMessage ==
    /\ pc = "Extracting"
    /\ idx <= Len(filtered_errors_handled)
    /\ \E fetched \in BOOLEAN, body \in Bodies :
          LET message_id == filtered_errors_handled[idx].id
              email == Email(message_id)
              r == Extract(email, body)
          IN IF ~fetched
                THEN /\ body = DefaultBody
                     /\ errFile' = on_transport_failure(email, errors, errFile)
                     /\ last' = [id |-> message_id, kind |-> "transport", ds |-> "unfetched"]
                     /\ UNCHANGED <<dataFile, newtrackingids>>
             ELSE IF r.raised
                THEN /\ errFile' = on_extract_failure(email, errors, errFile)
                     /\ last' = [id |-> message_id, kind |-> "error", ds |-> Sender(body)]
                     /\ UNCHANGED <<dataFile, newtrackingids>>
             ELSE /\ dataFile' = store_purchase(r.value, data, dataFile)
                  /\ newtrackingids' = note_tracking_id(r.value, data, newtrackingids)
                  /\ last' = [id |-> message_id, kind |-> "purchase", ds |-> Sender(body)]
                  /\ UNCHANGED errFile
    /\ idx' = idx + 1
    /\ UNCHANGED <<world, pc, data, processed_ids, errors, load_count, messages, pending,
                   filtered_errors_handled, printed, loaded>>

\* main: the for loop has gone over every message
LoopEnd ==
    /\ pc = "Extracting"
    /\ idx > Len(filtered_errors_handled)
    /\ pc' = "Reporting"
    /\ UNCHANGED <<files, memory>>

\* main, line 541
Report ==
    /\ pc = "Reporting"
    /\ printed' = newtrackingids
    /\ pc' = "Done"
    /\ UNCHANGED <<files, data, processed_ids, errors, newtrackingids, load_count,
                   messages, pending, filtered_errors_handled, idx, last, loaded>>

\* the process is over (returned, or ended by an exception); the script is
\* started again later
NextRun ==
    /\ pc \in {"Done", "Raised", "FetchFailed"}
    /\ pc' = "Start"
    /\ Forget
    /\ UNCHANGED files

\* the process is killed between two statements
Kill ==
    /\ pc \in {"Fetching", "Paging", "Filtering", "Extracting", "Reporting"}
    /\ pc' = "Start"
    /\ Forget
    /\ UNCHANGED files

\* the process is killed inside the file.write of append (line 97): the
\* beginning of the record is on disk, without its newline
KilledInAppend ==
    /\ pc = "Extracting"
    /\ idx <= Len(filtered_errors_handled)
    /\ \E body \in Bodies :
          LET email == Email(filtered_errors_handled[idx].id)
              r == Extract(email, body)
          IN IF r.raised
                THEN /\ ~PyIn(email, errors)
                     /\ errFile' = Append(errFile, Torn)
                     /\ UNCHANGED <<world, dataFile>>
                ELSE /\ ~PyIn(r.value, data)
                     /\ dataFile' = Append(dataFile, Torn)
                     /\ UNCHANGED <<world, errFile>>
    /\ pc' = "Start"
    /\ Forget

Next ==
    \/ LoadLedgers
    \/ ListFirstPage
    \/ ListNextPage
    \/ ReturnMessages
    \/ FetchFails
    \/ Filter
    \/ ProcessMessage
    \/ LoopEnd
    \/ Report
    \/ NextRun

Spec == Init /\ [][Next]_vars

NextCrash ==
    \/ Next
    \/ Kill
    \/ KilledInAppend

SpecCrash == Init /\ [][NextCrash]_vars

\* ------------------------------------------------- the listing on its own
\* get_messages over a larger mailbox; main stops before the filter
InitFetch ==
    /\ call = NoCall
    /\ mailbox = 1..MaxFetchMsgs
    /\ pc = "Start"
    /\ dataFile = <<>> /\ errFile = <<>>
    /\ Fresh

NextFetch ==
    \/ LoadLedgers
    \/ ListFirstPage
    \/ ListNextPage
    \/ ReturnMessages

SpecFetch == InitFetch /\ [][NextFetch]_vars

\* ------------------------------------------- from_number on its own
DigitRun(d, n) == [k \in 1..n |-> d]

NumberPrefixes == {<<>>, <<"T", "B", "A">>, <<"T", "B">>, <<"1", "Z">>, <<"1">>,
                   <<"A", "B">>, <<"a", "b">>, <<"A">>}
NumberSuffixes == {<<>>, <<"C", "D">>, <<"c", "d">>, <<"C">>, <<"x">>}

\* the tracking numbers tried: a prefix, a run of digits, a suffix
TrackingNumbers ==
    {p \o DigitRun(d, n) \o q :
        p \in NumberPrefixes, d \in {"0", "9"}, n \in 0..MaxDigits, q \in NumberSuffixes}

InitNumber ==
    /\ \E t \in TrackingNumbers :
          call = [fn |-> "from_number", arg |-> t, returned |-> FALSE, result |-> "None"]
    /\ mailbox = {}
    /\ pc = "Start"
    /\ dataFile = <<>> /\ errFile = <<>>
    /\ Fresh

\* DeliveryService.from_number(trk_number) is called and returns
CallFromNumber ==
    /\ call.fn = "from_number"
    /\ ~call.returned
    /\ call' = [call EXCEPT !.returned = TRUE, !.result = from_number(call.arg)]
    /\ UNCHANGED <<mailbox, pc, dataFile, errFile, memory>>

NextNumber == CallFromNumber

SpecNumber == InitNumber /\ [][NextNumber]_vars

\* ------------------- find_amazon_tracking_ID_in_tracking_url_html on its own
\* the texts of the <a> tags tried
AnchorTexts ==
    {<<"H", "e", "l", "p">>,
     TrackingIdLabel,
     TrackingIdLabel \o <<" ", "T", "B", "A", "7">>,
     TrackingIdLabel \o <<":", " ", "T", "B", "A", "7">>,
     <<"Y", "o", "u", "r", " ">> \o TrackingIdLabel \o <<" ", "T", "B", "A", "7">>}

\* the pages tried: up to MaxAnchors <a> tags
TrackingPages == UNION {[1..n -> AnchorTexts] : n \in 0..MaxAnchors}

InitAmazon ==
    /\ \E page \in TrackingPages :
          call = [fn |-> "find_amazon_tracking_ID", arg |-> page, returned |-> FALSE,
                  result |-> Raises]
    /\ mailbox = {}
    /\ pc = "Start"
    /\ dataFile = <<>> /\ errFile = <<>>
    /\ Fresh

\* find_amazon_tracking_ID_in_tracking_url_html(html) is called and returns
\* or raises
CallFindTrackingID ==
    /\ call.fn = "find_amazon_tracking_ID"
    /\ ~call.returned
    /\ call' = [call EXCEPT !.returned = TRUE,
                  !.result = find_amazon_tracking_ID_in_tracking_url_html(call.arg)]
    /\ UNCHANGED <<mailbox, pc, dataFile, errFile, memory>>

NextAmazon == CallFindTrackingID

SpecAmazon == InitAmazon /\ [][NextAmazon]_vars

\* ---------------------------------------------------------- parse_address
\* the alternatives of (STE|UNIT|APT|DEPT|RM|FL|BLDG)
Keywords == {<<"S", "T", "E">>, <<"U", "N", "I", "T">>, <<"A", "P", "T">>,
             <<"D", "E", "P", "T">>, <<"R", "M">>, <<"F", "L">>,
             <<"B", "L", "D", "G">>}

\* "." of a pattern: any character but the newline
NoNewline(s) == \A k \in 1..Len(s) : s[k] # "\n"

\* one of the alternatives begins right after position j, whatever s[j] is
KeywordAfter(s, j) == j >= 1 /\ j <= Len(s) /\ \E kw \in Keywords : StartsWith(Drop(s, j), kw)

\* the pattern without its space: "((STE|UNIT|APT|DEPT|RM|FL|BLDG)" after any
\* character
KeywordAfterAnything(s, j) == KeywordAfter(s, j)

\* " (STE|UNIT|APT|DEPT|RM|FL|BLDG)" matches at position j: a space, then
\* one of the alternatives
SpaceKeywordAt(s, j) == KeywordAfter(s, j) /\ s[j] = " "

\* the first position of the line position j lies on
LineStart(s, j) ==
    LET breaks == {k \in 1..(j - 1) : s[k] = "\n"}
    IN IF breaks = {} THEN 1 ELSE 1 + CHOOSE k \in breaks : \A b \in breaks : b <= k

\* the last position of the line position j lies on, its newline excluded
LineEnd(s, j) ==
    LET breaks == {k \in j..Len(s) : s[k] = "\n"}
    IN IF breaks = {} THEN Len(s) ELSE (CHOOSE k \in breaks : \A b \in breaks : k <= b) - 1

\* re.search(r'(.*) ((STE|UNIT|APT|DEPT|RM|FL|BLDG).*)', line1_2), lines
\* 278-281: the match begins at the leftmost position from which one
\* exists, the start of the first line holding a space and a keyword;
\* (.*) is greedy and ends before the last such space of that line; without
\* a match .group raises on None
search_line1_2(line1_2) ==
    LET hits == {j \in 1..Len(line1_2) : SpaceKeywordAt(line1_2, j)}
    IN IF hits = {} THEN Raises
       ELSE LET lowest == CHOOSE j \in hits : \A h \in hits : j <= h
                start == LineStart(line1_2, lowest)
                sameLine == {j \in hits : LineStart(line1_2, j) = start}
                split == CHOOSE j \in sameLine : \A h \in sameLine : h <= j
            IN Returns([line1 |-> SubSeq(line1_2, start, split - 1),
                        line2 |-> SubSeq(line1_2, split + 1, LineEnd(line1_2, split))])

\* ", ([A-Z]{2}).*?([0-9]{5})" matches from the comma at position c with
\* the five digits at position p
StateZipAt(s, c, p) ==
    /\ c + 3 <= Len(s) /\ p >= c + 4 /\ p + 4 <= Len(s)
    /\ s[c] = "," /\ s[c + 1] = " "
    /\ s[c + 2] \in UpperLetters /\ s[c + 3] \in UpperLetters
    /\ NoNewline(SubSeq(s, c + 4, p - 1))
    /\ \A k \in p..(p + 4) : s[k] \in Digits

\* re.search(r'([^,]*), ([A-Z]{2}).*?([0-9]{5})', city_state_zip), lines
\* 283-287: [^,]* ends at the first comma after the start, so the match is
\* at the first comma that the rest matches from, and begins after the comma
\* before it; .*? is lazy and stops at the first five digits
search_city_state_zip(city_state_zip) ==
    LET s == city_state_zip
        commas == {c \in 1..Len(s) : \E p \in 1..Len(s) : StateZipAt(s, c, p)}
    IN IF commas = {} THEN Raises
       ELSE LET c == CHOOSE x \in commas : \A y \in commas : x <= y
                before == {k \in 1..(c - 1) : s[k] = ","}
                start == IF before = {} THEN 1
                         ELSE 1 + CHOOSE k \in before : \A b \in before : b <= k
                zips == {p \in 1..Len(s) : StateZipAt(s, c, p)}
                p == CHOOSE x \in zips : \A y \in zips : x <= y
            IN Returns([city |-> SubSeq(s, start, c - 1),
                        state |-> SubSeq(s, c + 2, c + 3),
                        zipcode |-> SubSeq(s, p, p + 4)])

\* parse_address(line1_2, city_state_zip), lines 276-290
parse_address(line1_2, city_state_zip) ==
    LET line1_2_matches == search_line1_2(line1_2)
    IN IF line1_2_matches.raised THEN Raises
       ELSE LET citystatezip_matches == search_city_state_zip(city_state_zip)
            IN IF citystatezip_matches.raised THEN Raises
               ELSE Returns([class |-> "Address",
                             line1 |-> line1_2_matches.value.line1,
                             line2 |-> line1_2_matches.value.line2,
                             city |-> citystatezip_matches.value.city,
                             state |-> citystatezip_matches.value.state,
                             zipcode |-> citystatezip_matches.value.zipcode])

\* -------------------------------------------------- parse_address on its own
\* the pieces the first address lines tried are made of
LinePieces == {<<"1", "2">>, <<" ">>, <<"A", "P", "T">>, <<"F", "L">>,
               <<"a", "p", "t">>, <<"R", "d">>, <<"\n">>}

\* the concatenation of a sequence of pieces
RECURSIVE Concat(_)
Concat(pieces) == IF pieces = <<>> THEN <<>> ELSE Head(pieces) \o Concat(Tail(pieces))

\* the first address lines tried: up to MaxPieces pieces in a row
AddressLines == {Concat(ps) : ps \in UNION {[1..n -> LinePieces] : n \in 0..MaxPieces}}

\* the city lines tried: "Rye, NY 10580", "Rye NY 10580", "a, Rye, NY 105801"
\* and "Rye, ny 10580"
CityLines ==
    {<<"R", "y", "e", ",", " ", "N", "Y", " ", "1", "0", "5", "8", "0">>,
     <<"R", "y", "e", " ", "N", "Y", " ", "1", "0", "5", "8", "0">>,
     <<"a", ",", " ", "R", "y", "e", ",", " ", "N", "Y", " ", "1", "0", "5", "8", "0", "1">>,
     <<"R", "y", "e", ",", " ", "n", "y", " ", "1", "0", "5", "8", "0">>}

InitAddress ==
    /\ \E l \in AddressLines, c \in CityLines :
          call = [fn |-> "parse_address", arg |-> [line1_2 |-> l, city_state_zip |-> c],
                  returned |-> FALSE, result |-> Raises]
    /\ mailbox = {}
    /\ pc = "Start"
    /\ dataFile = <<>> /\ errFile = <<>>
    /\ Fresh

\* parse_address(line1_2, city_state_zip) is called and returns or raises
CallParseAddress ==
    /\ call.fn = "parse_address"
    /\ ~call.returned
    /\ call' = [call EXCEPT !.returned = TRUE,
                  !.result = parse_address(call.arg.line1_2, call.arg.city_state_zip)]
    /\ UNCHANGED <<mailbox, pc, dataFile, errFile, memory>>

NextAddress == CallParseAddress

SpecAddress == InitAddress /\ [][NextAddress]_vars

\* ================================================================= claims
\* the ids a ledger file holds
IdsInErrFile == {errFile[k].obj.Id : k \in {j \in 1..Len(errFile) : errFile[j].kind = "line"}}
IdsInDataFile ==
    {dataFile[k].obj.email.Id : k \in {j \in 1..Len(dataFile) : dataFile[j].kind = "line"}}

\* a pass of the loop body is about to be taken
InLoopBody == pc = "Extracting" /\ idx <= Len(filtered_errors_handled)

\* C1: a candidate whose id is in the error ledger when the run loads it is
\* dropped by the filter: it is not among the messages the loop fetches.
C1_ErrorsAreNotRetried ==
    pc = "Extracting" =>
        \A k \in 1..Len(filtered_errors_handled) :
            \A j \in 1..Len(errors) : errors[j].Id # filtered_errors_handled[k].id

\* C2: the success ledger never holds two entries equal on (message id,
\* tracking number), and the error ledger never holds two entries with the
\* same message id.
C2_NoDuplicateEntries ==
    /\ \A i, j \in 1..Len(dataFile) :
          (i < j /\ dataFile[i].kind = "line" /\ dataFile[j].kind = "line")
              => ~(/\ dataFile[i].obj.email.Id = dataFile[j].obj.email.Id
                   /\ dataFile[i].obj.tracking_number = dataFile[j].obj.tracking_number)
    /\ \A i, j \in 1..Len(errFile) :
          (i < j /\ errFile[i].kind = "line" /\ errFile[j].kind = "line")
              => errFile[i].obj.Id # errFile[j].obj.Id

\* C2, its case: a later run lists a message of the success ledger again, and
\* has just failed again on a message that the error ledger already held.
C2_Witness ==
    /\ pc = "Extracting"
    /\ last.kind = "error"
    /\ \E j \in 1..Len(errors) : errors[j].Id = last.id
    /\ \E k \in 1..Len(messages.list) : messages.list[k].id \in IdsInDataFile
    /\ \E k \in 1..Len(processed_ids) : processed_ids[k] \in IdsInDataFile

\* C3: when a fetched message fails in classification, extraction or
\* assembly, its id is in the error ledger afterwards, the success ledger is
\* as it was, and the loop is at the next message; a sender that is unknown
\* or a carrier without extractor always fails this way.
C3_FailureIsolation ==
    [][(InLoopBody /\ last'.kind \in {"error", "purchase"}) =>
          /\ last'.ds \in {"raised", "None", "FedEx", "USPS"} => last'.kind = "error"
          /\ last'.kind = "error" =>
                /\ \E k \in 1..Len(errFile') :
                      errFile'[k].kind = "line" /\ errFile'[k].obj.Id = last'.id
                /\ dataFile' = dataFile
                /\ newtrackingids' = newtrackingids
                /\ pc' = "Extracting"
                /\ idx' = idx + 1]_vars

\* C3, its case: a FedEx message has just failed, another message follows.
C3_Witness ==
    /\ InLoopBody
    /\ last.kind = "error" /\ last.ds = "FedEx"
    /\ last.id \in IdsInErrFile
    /\ last.id \notin IdsInDataFile

\* C4: a transport failure changes neither ledger and the loop goes on; and
\* a listed message with an entry in neither ledger passes the filter, so the
\* skipped message is fetched again by the next run that lists it.
C4_TransportFailure ==
    /\ [][(InLoopBody /\ last'.kind = "transport") =>
             /\ dataFile' = dataFile
             /\ errFile' = errFile
             /\ newtrackingids' = newtrackingids
             /\ pc' = "Extracting"
             /\ idx' = idx + 1]_vars
    /\ [][(pc = "Filtering" /\ pc' = "Extracting") =>
             \A k \in 1..Len(messages.list) :
                 (messages.list[k].id \notin (IdsInDataFile \cup IdsInErrFile))
                     => \E j \in 1..Len(filtered_errors_handled') :
                            filtered_errors_handled'[j] = messages.list[k]]_vars

\* C4, its case: the fetch of a message has just failed, the message is in
\* neither ledger, and another message follows.
C4_Witness ==
    /\ InLoopBody
    /\ last.kind = "transport"
    /\ last.id \notin (IdsInDataFile \cup IdsInErrFile)

\* the tracking numbers of the lines added to the success ledger in this run
AppendedThisRun ==
    [k \in 1..(Len(dataFile) - loaded.data) |-> dataFile[loaded.data + k].obj.tracking_number]

\* C5: once the listing has returned, the run is never ended by an
\* exception, and what it prints at the end is the tracking numbers of the
\* purchases it appended in this run.
C5_RunCompletes ==
    /\ pc # "Raised"
    /\ pc = "Done" => printed = AppendedThisRun

\* C6: the list get_messages returns has at most max_results entries, and
\* the paging has stopped because the cap is reached or no page is left.
C6_FetchCap ==
    (pc = "Filtering" /\ ~messages.isNone) =>
        /\ Len(messages.list) <= load_count
        /\ Len(messages.list) >= load_count \/ pending = <<>>

\* the chunk lies on a line of its own that decodes: it is a whole record
\* and does not follow a torn chunk on the same line
ValidLine(file, k) ==
    /\ file[k].kind = "line"
    /\ k = 1 \/ file[k - 1].kind = "line"

\* the number of torn chunks in a file
TornIn(file) == Cardinality({k \in 1..Len(file) : file[k].kind = "torn"})

\* C7: when a ledger file holds one undecodable line among valid lines, the
\* load still returns the record of every valid line, and the ids of the
\* success ledger's records are among the processed ids of the run.
C7_PerLineIsolation ==
    pc = "Fetching" =>
        /\ TornIn(dataFile) = 1 =>
              \A k \in 1..Len(dataFile) :
                  ValidLine(dataFile, k) =>
                      /\ PyIn(dataFile[k].obj, data)
                      /\ \E j \in 1..Len(processed_ids) :
                             processed_ids[j] = dataFile[k].obj.email.Id
        /\ TornIn(errFile) = 1 =>
              \A k \in 1..Len(errFile) :
                  ValidLine(errFile, k) => PyIn(errFile[k].obj, errors)

\* every character of s is in the set
AllIn(s, set) == \A k \in 1..Len(s) : s[k] \in set

\* s is 2 characters of the set, then 9 digits, then 2 characters of the set
TwoNineTwo(s, set) ==
    /\ Len(s) = 13
    /\ AllIn(SubSeq(s, 1, 2), set)
    /\ AllIn(SubSeq(s, 3, 11), Digits)
    /\ AllIn(SubSeq(s, 12, 13), set)

\* the classification the rules give, first match first, when "letter"
\* means a character of the set
ByRules(s, letters) ==
    LET amazon == Len(s) >= 3 /\ SubSeq(s, 1, 3) = <<"T", "B", "A">>
        ups == Len(s) >= 2 /\ SubSeq(s, 1, 2) = <<"1", "Z">>
        usps == (Len(s) = 20 /\ AllIn(s, Digits)) \/ TwoNineTwo(s, letters)
        fedex == Len(s) \in {12, 15} /\ AllIn(s, Digits)
    IN CASE amazon -> "Amazon"
         [] ~amazon /\ ups -> "UPS"
         [] ~amazon /\ ~ups /\ usps -> "USPS"
         [] ~amazon /\ ~ups /\ ~usps /\ fedex -> "FedEx"
         [] OTHER -> "None"

\* C8 as claimed: from_number returns for every string, and its result is
\* the one the rules give, a letter being any letter.
C8_AnyLetters ==
    (call.fn = "from_number" /\ call.returned) =>
        call.result = ByRules(call.arg, UpperLetters \cup LowerLetters)

\* C8 as amended: from_number returns for every string, and its result is
\* the one the rules give, a letter being an upper-case letter A-Z.
C8_UpperCaseLetters ==
    (call.fn = "from_number" /\ call.returned) =>
        /\ call.result \in {"Amazon", "UPS", "USPS", "FedEx", "None"}
        /\ call.result = ByRules(call.arg, UpperLetters)

\* C8, its case: from_number has returned USPS for a string of 13
\* characters: 2 upper-case letters, 9 digits, 2 upper-case letters.
C8_Witness ==
    /\ call.fn = "from_number" /\ call.returned
    /\ call.result = "USPS"
    /\ Len(call.arg) = 13

IsPrefix(s, t) == Len(s) <= Len(t) /\ SubSeq(t, 1, Len(s)) = s

\* C9: each ledger file only grows: what it held before a step is a prefix
\* of what it holds after it, through runs and kills; a purchase or a failed
\* message is on disk when its pass of the loop is over; and no tracking
\* number is kept in memory only.
C9_AppendOnlyDurable ==
    /\ [][IsPrefix(dataFile, dataFile') /\ IsPrefix(errFile, errFile')]_vars
    /\ [][(InLoopBody /\ pc' = "Extracting") =>
             /\ last'.kind = "purchase" =>
                   /\ Len(dataFile') = Len(dataFile) + 1
                   /\ dataFile'[Len(dataFile')].kind = "line"
                   /\ dataFile'[Len(dataFile')].obj.email.Id = last'.id
             /\ last'.kind = "error" =>
                   \E k \in 1..Len(errFile') :
                       errFile'[k].kind = "line" /\ errFile'[k].obj.Id = last'.id]_vars
    /\ [](pc \in {"Extracting", "Reporting", "Done"} =>
             /\ Len(dataFile) = loaded.data + Len(newtrackingids)
             /\ AppendedThisRun = newtrackingids)

\* C9, its case: a run was killed inside a write to the error ledger, the
\* entries written before are still there, and a later run has just added a
\* purchase after them.
C9_Witness ==
    /\ pc = "Extracting"
    /\ last.kind = "purchase"
    /\ Len(dataFile) >= 2
    /\ loaded.data >= 1
    /\ TornIn(errFile) = 1 /\ Len(errFile) >= 2

\* the tracking ID as described: the first anchor whose text begins with
\* "Tracking ID " gives its text without the first 12 characters; without
\* such an anchor the extraction fails
ByLabel(atags) ==
    LET hits == {k \in 1..Len(atags) : StartsWith(atags[k], TrackingIdLabel \o <<" ">>)}
    IN IF hits = {} THEN Raises
       ELSE LET first == CHOOSE k \in hits : \A j \in hits : k <= j
            IN Returns(Drop(atags[first], 12))

\* C10: the extraction returns the text of the first anchor beginning with
\* "Tracking ID ", less its first 12 characters, and fails without one.
C10_TrackingIdOfFirstLabelledAnchor ==
    (call.fn = "find_amazon_tracking_ID" /\ call.returned) =>
        call.result = ByLabel(call.arg)

\* a keyword of the set occurs in s
HasKeyword(s) == \E kw \in Keywords : Contains(s, kw)

\* a keyword of the set occurs in s right after a space
HasSpacedKeyword(s) == \E kw \in Keywords : Contains(s, <<" ">> \o kw)

\* what a successful parse_address must have made of the first line s:
\* line2 begins with a keyword, and on a single line line1, a space and
\* line2 give the input back
SplitsAtKeyword(s, address) ==
    /\ \E kw \in Keywords : StartsWith(address.line2, kw)
    /\ NoNewline(s) => address.line1 \o <<" ">> \o address.line2 = s

\* C11 as claimed: parse_address fails on the first line exactly when it
\* holds no keyword of the set; when it succeeds, line2 begins with a
\* keyword, line1 is what stands before it, and the two give the line back.
C11_FailsWithoutKeyword ==
    (call.fn = "parse_address" /\ call.returned) =>
        /\ call.result.raised <=>
              (~HasKeyword(call.arg.line1_2)
                  \/ search_city_state_zip(call.arg.city_state_zip).raised)
        /\ ~call.result.raised => SplitsAtKeyword(call.arg.line1_2, call.result.value)

\* C11 as amended: parse_address fails on the first line exactly when it
\* holds no keyword of the set right after a space; when it succeeds, line2
\* begins with a keyword and holds no further keyword after a space, line1,
\* a space and line2 occur in the input, and are the whole input when it is
\* a single line.
C11_FailsWithoutSpacedKeyword ==
    (call.fn = "parse_address" /\ call.returned) =>
        /\ call.result.raised <=>
              (~HasSpacedKeyword(call.arg.line1_2)
                  \/ search_city_state_zip(call.arg.city_state_zip).raised)
        /\ ~call.result.raised =>
              /\ SplitsAtKeyword(call.arg.line1_2, call.result.value)
              /\ ~HasSpacedKeyword(call.result.value.line2)
              /\ Contains(call.arg.line1_2,
                          call.result.value.line1 \o <<" ">> \o call.result.value.line2)

\* C11, its case: parse_address has split a single line holding two
\* keywords after spaces, at the last of them.
C11_Witness ==
    /\ call.fn = "parse_address" /\ call.returned
    /\ ~call.result.raised
    /\ NoNewline(call.arg.line1_2)
    /\ call.result.value.line1 = <<" ", "A", "P", "T">>
    /\ call.result.value.line2 = <<"F", "L">>

====
